---- MODULE Spec2Model ----
(***************************************************************************)
(* GIAS data fetcher (src/src/fetch-data.ts): the content validator, the   *)
(* size-change check, downloadFile (one download attempt, step by await)   *)
(* and fetchData (the batch over the template list), with the process      *)
(* entry point.  Text is a sequence of one-character strings; a file's     *)
(* byte size is the length of its text.                                    *)
(***************************************************************************)
EXTENDS Integers, Sequences, FiniteSets, TLC

VARIABLES
    opts,       \* the options of the run: date, config.sizeChangeThresholdPercent, urlTemplates
    dirExists,  \* whether config.outputDir exists
    fs,         \* path -> file, the files under config.outputDir
    pc,         \* position of fetchData
    dateStr,    \* fetchData: const dateStr
    idx,        \* fetchData: 1-based position of the for-of loop over templates
    downloadedFiles, skippedFiles, fileSizeWarnings,   \* fetchData: the three result lists
    dl,         \* the frame of the downloadFile call in progress
    calls,      \* history: the URLs handed to the transport, in order
    returns,    \* history: what each downloadFile call returned, in order
    exitCode,   \* process exit code, -1 while the process runs
    error,      \* what fetchData rejected with, "none" while it has not thrown
    fsAtStart,  \* history: the files as the run found them
    vcontent,   \* validator run: the content under inspection
    vresult,    \* validator run: validateCSVContent(vcontent)
    vlegacy,    \* validator run: isHtmlContent(vcontent) and isValidCsv(vcontent)
    sizeRun,    \* size-check run: the arguments and what checkFileSizeChange returned
    urlRun,     \* URL run: the template, base URL and date token, and the expanded URL
    configRun   \* config runs: DEFAULT_CONFIG as it stands, the overrides, the merged configs

vars == <<opts, dirExists, fs, pc, dateStr, idx, downloadedFiles, skippedFiles,
          fileSizeWarnings, dl, calls, returns, exitCode, error, fsAtStart,
          vcontent, vresult, vlegacy, sizeRun, urlRun, configRun>>

fetchVars == <<opts, dirExists, fs, pc, dateStr, idx, downloadedFiles, skippedFiles,
               fileSizeWarnings, dl, calls, returns, exitCode, error, fsAtStart>>

validatorVars == <<vcontent, vresult, vlegacy>>
sizeVars == <<sizeRun>>
urlVars == <<urlRun>>
configVars == <<configRun>>

-----------------------------------------------------------------------------
(* Bounds of the model *)

MaxTemplates == 2   \* longest template list of a run
MaxPieces == 5      \* longest content of a validator run, in pieces
MaxSize == 25       \* largest file size of a size-check run, in bytes
MaxUrlPieces == 3    \* longest URL template of a URL run, in pieces

-----------------------------------------------------------------------------
(* Text helpers: String.prototype.includes / split / replace on sequences *)

\* s.startsWith(p, i): p occurs in s at 1-based position i
MatchAt(s, p, i) ==
    /\ i >= 1
    /\ i + Len(p) - 1 <= Len(s)
    /\ \A k \in 1..Len(p) : s[i + k - 1] = p[k]

RECURSIVE IndexFrom(_, _, _)
\* s.indexOf(p, i - 1) + 1: the first position >= i where p occurs in s, 0 if none
IndexFrom(s, p, i) ==
    IF i + Len(p) - 1 > Len(s) THEN 0
    ELSE IF MatchAt(s, p, i) THEN i
    ELSE IndexFrom(s, p, i + 1)

\* s.includes(p)
Includes(s, p) == IndexFrom(s, p, 1) # 0

NL == "\n"

RECURSIVE SplitLines(_)
\* s.split('\n'): always at least one line, '' splits to ['']
SplitLines(s) ==
    LET i == IndexFrom(s, <<NL>>, 1)
    IN  IF i = 0 THEN <<s>>
        ELSE <<SubSeq(s, 1, i - 1)>> \o SplitLines(SubSeq(s, i + 1, Len(s)))

\* a plausible slip: every line kept, not only the first n
Slice0_All(a, n) == a

\* a.slice(0, n)
Slice0(a, n) == SubSeq(a, 1, IF Len(a) < n THEN Len(a) ELSE n)

\* the grave accent character (U+0060), which a string of this notation
\* cannot hold
Backtick == "grave"

RECURSIVE GetSubstitution(_, _, _, _)
\* the replacement text r of s.replace(p, r) with its $ patterns expanded:
\* $$ is a dollar sign, $& the matched text, $ with a grave accent the text
\* before the match and $ with an apostrophe the text after it; any other $
\* stands for itself
GetSubstitution(r, matched, before, after) ==
    IF r = <<>> THEN <<>>
    ELSE IF r[1] = "$" /\ Len(r) >= 2 /\ r[2] \in {"$", "&", Backtick, "'"}
         THEN (CASE r[2] = "$" -> <<"$">>
                 [] r[2] = "&" -> matched
                 [] r[2] = Backtick -> before
                 [] r[2] = "'" -> after)
              \o GetSubstitution(SubSeq(r, 3, Len(r)), matched, before, after)
         ELSE <<r[1]>> \o GetSubstitution(Tail(r), matched, before, after)

\* s.replace(p, r) with a string pattern: the first occurrence only
ReplaceFirst(s, p, r) ==
    LET i == IndexFrom(s, p, 1)
        before == SubSeq(s, 1, i - 1)
        after == SubSeq(s, i + Len(p), Len(s))
    IN  IF i = 0 THEN s
        ELSE before \o GetSubstitution(r, p, before, after) \o after

-----------------------------------------------------------------------------
(* Content validator *)

DOCTYPE == <<"<", "!", "D", "O", "C", "T", "Y", "P", "E">>
HTML == <<"<", "h", "t", "m", "l">>
BODY == <<"<", "b", "o", "d", "y">>
HEAD == <<"<", "h", "e", "a", "d">>

htmlPatterns == <<DOCTYPE, HTML, BODY, HEAD>>

Valid == [isValid |-> TRUE, reason |-> "none"]
InvalidHtml == [isValid |-> FALSE, reason |-> "Content contains HTML markup"]
InvalidCsv == [isValid |-> FALSE, reason |-> "Content lacks comma separators"]

\* the legacy helpers not called yet
NotCompared == [done |-> FALSE, isHtml |-> FALSE, isCsv |-> FALSE]

\* a plausible slip: the legacy helper left with the doctype pattern alone
isHtmlContent_DoctypeOnly(content) == Includes(content, DOCTYPE)

\* htmlPatterns.some(pattern => content.includes(pattern))
isHtmlContent(content) ==
    \E k \in 1..Len(htmlPatterns) : Includes(content, htmlPatterns[k])

\* content.split('\n').slice(0, 3).some(line => line.includes(','))
isValidCsv(content) ==
    LET lines == Slice0(SplitLines(content), 3)
    IN  \E k \in 1..Len(lines) : Includes(lines[k], <<",">>)

\* a plausible slip: the comma rule applied before the HTML rule
validateCSVContent_CommaFirst(content) ==
    IF isValidCsv(content) THEN Valid
    ELSE IF isHtmlContent(content) THEN InvalidHtml
    ELSE InvalidCsv

validateCSVContent(content) ==
    IF \E k \in 1..Len(htmlPatterns) : Includes(content, htmlPatterns[k])
    THEN InvalidHtml
    ELSE LET lines == Slice0(SplitLines(content), 3)
         IN  IF ~ \E k \in 1..Len(lines) : Includes(lines[k], <<",">>)
             THEN InvalidCsv
             ELSE Valid

-----------------------------------------------------------------------------
(* Size-change check *)

Abs(x) == IF x < 0 THEN -x ELSE x

NoWarning == [null |-> TRUE]

\* the warning text, by its variable parts; percent100 is the percent as
\* toFixed(2) prints it, in hundredths
Warning(fileName, direction, percent100, oldSize, newSize) ==
    [null |-> FALSE, fileName |-> fileName, direction |-> direction,
     percent100 |-> percent100, oldSize |-> oldSize, newSize |-> newSize]

(* IEEE 754 double arithmetic, as the JavaScript Number operations perform it.
   A positive double is [m |-> its 53 significand bits, most significant
   first, e |-> the exponent of the last bit]: its value is m * 2^e. *)

SignificandBits == 53

RECURSIVE Pow2(_)
Pow2(k) == IF k = 0 THEN 1 ELSE 2 * Pow2(k - 1)

Zeros(k) == [i \in 1..k |-> 0]

Reverse(s) == [i \in 1..Len(s) |-> s[Len(s) + 1 - i]]

RECURSIVE IntToBits(_)
\* the binary digits of n > 0, most significant first
IntToBits(n) == IF n < 2 THEN <<n>> ELSE IntToBits(n \div 2) \o <<n % 2>>

RECURSIVE BitsToInt(_)
\* the number a short bit sequence denotes
BitsToInt(bits) ==
    IF bits = <<>> THEN 0
    ELSE 2 * BitsToInt(SubSeq(bits, 1, Len(bits) - 1)) + bits[Len(bits)]

RECURSIVE AddLsb(_, _, _)
\* a + b + carry on bit sequences, least significant first
AddLsb(a, b, carry) ==
    IF a = <<>> /\ b = <<>> THEN (IF carry = 1 THEN <<1>> ELSE <<>>)
    ELSE LET x == IF a = <<>> THEN 0 ELSE a[1]
             y == IF b = <<>> THEN 0 ELSE b[1]
             sum == x + y + carry
         IN  <<sum % 2>> \o AddLsb(IF a = <<>> THEN a ELSE Tail(a),
                                   IF b = <<>> THEN b ELSE Tail(b), sum \div 2)

\* a + b on bit sequences, most significant first
AddBits(a, b) == Reverse(AddLsb(Reverse(a), Reverse(b), 0))

\* a > b for bit sequences with a leading 1, most significant first
RECURSIVE BitsGreater(_, _)
BitsGreater(a, b) ==
    IF Len(a) # Len(b) THEN Len(a) > Len(b)
    ELSE IF a = <<>> THEN FALSE
    ELSE IF a[1] # b[1] THEN a[1] > b[1]
    ELSE BitsGreater(Tail(a), Tail(b))

\* bits * 2^e rounded to a double: round to nearest, ties to even
RoundToDouble(bits, e) ==
    IF Len(bits) <= SignificandBits
    THEN [m |-> bits \o Zeros(SignificandBits - Len(bits)),
          e |-> e - (SignificandBits - Len(bits))]
    ELSE LET keep == SubSeq(bits, 1, SignificandBits)
             rest == SubSeq(bits, SignificandBits + 1, Len(bits))
             sticky == \E i \in 2..Len(rest) : rest[i] = 1
             up == rest[1] = 1 /\ (sticky \/ keep[SignificandBits] = 1)
             rounded == IF up THEN AddBits(keep, <<1>>) ELSE keep
             shift == Len(bits) - SignificandBits
         IN  IF Len(rounded) > SignificandBits
             THEN [m |-> SubSeq(rounded, 1, SignificandBits), e |-> e + shift + 1]
             ELSE [m |-> rounded, e |-> e + shift]

RECURSIVE Log2Floor(_, _)
\* floor(log2(num / den)) for positive integers
Log2Floor(num, den) ==
    IF num >= den THEN (IF num >= 2 * den THEN 1 + Log2Floor(num, 2 * den) ELSE 0)
    ELSE Log2Floor(2 * num, den) - 1

RECURSIVE QuotientBits(_, _, _)
\* the next count binary digits of r / den < 1, then a digit for what is left
\* over (1 if the remainder is not zero), so that rounding sees guard and sticky
QuotientBits(r, den, count) ==
    IF count = 0 THEN <<IF r > 0 THEN 1 ELSE 0>>
    ELSE IF 2 * r >= den THEN <<1>> \o QuotientBits(2 * r - den, den, count - 1)
    ELSE <<0>> \o QuotientBits(2 * r, den, count - 1)

\* num / den for positive integers, as Number division rounds it
DoubleDiv(num, den) ==
    LET k == Log2Floor(num, den)
        n == IF k < 0 THEN num * Pow2(-k) ELSE num
        d == IF k > 0 THEN den * Pow2(k) ELSE den
        \* n / d is in [1, 2): a leading 1, 52 more digits, a guard and a sticky digit
        bits == <<1>> \o QuotientBits(n - d, d, SignificandBits)
    IN  RoundToDouble(bits, k - (SignificandBits + 1))

\* x * 100 for a positive double, as Number multiplication rounds it
DoubleTimes100(x) ==
    LET product == AddBits(AddBits(x.m \o Zeros(6), x.m \o Zeros(5)), x.m \o Zeros(2))
    IN  RoundToDouble(product, x.e)

\* x > t for a positive double x and an integer t >= 0
DoubleGreater(x, t) ==
    IF t = 0 \/ x.e >= 0 THEN TRUE
    ELSE BitsGreater(x.m, IntToBits(t) \o Zeros(-x.e))

\* x.toFixed(2) in hundredths: the integer nearest to x * 100, the larger on a tie
DoubleToFixed2(x) ==
    LET product == AddBits(AddBits(x.m \o Zeros(6), x.m \o Zeros(5)), x.m \o Zeros(2))
        \* floor(2 * x * 100): the product shifted right by -x.e - 1 places
        twice == IF x.e >= 0 THEN product \o Zeros(x.e + 1)
                 ELSE IF Len(product) + x.e + 1 <= 0 THEN <<>>
                 ELSE SubSeq(product, 1, Len(product) + x.e + 1)
    IN  (BitsToInt(twice) + 1) \div 2

\* Math.abs((newSize - oldSize) / oldSize * 100), for newSize # oldSize, oldSize > 0
sizeDifferencePercent(newSize, oldSize) ==
    DoubleTimes100(DoubleDiv(Abs(newSize - oldSize), oldSize))

\* a plausible slip: the operands of the comparison the wrong way round
changeDirection_Reversed(newSize, oldSize) ==
    IF oldSize > newSize THEN "increased" ELSE "decreased"

\* const changeDirection = newSize > oldSize ? 'increased' : 'decreased'
changeDirection(newSize, oldSize) ==
    IF newSize > oldSize THEN "increased" ELSE "decreased"

\* a plausible slip: the difference taken relative to newSize
PercentFixed2_OfNew(newSize, oldSize) ==
    IF newSize = oldSize \/ newSize = 0 THEN 0
    ELSE DoubleToFixed2(sizeDifferencePercent(oldSize, newSize))

\* sizeDifferencePercent.toFixed(2), in hundredths
PercentFixed2(newSize, oldSize) ==
    IF newSize = oldSize THEN 0
    ELSE DoubleToFixed2(sizeDifferencePercent(newSize, oldSize))

\* a plausible slip: >= in place of >, so that no change at all reaches a
\* threshold of 0
ExceedsThreshold_OrEqual(newSize, oldSize, threshold) ==
    IF newSize = oldSize THEN threshold = 0
    ELSE \/ DoubleGreater(sizeDifferencePercent(newSize, oldSize), threshold)
         \/ Abs(newSize - oldSize) * 100 = threshold * oldSize

\* sizeDifferencePercent > threshold, for an integer threshold >= 0
ExceedsThreshold(newSize, oldSize, threshold) ==
    /\ newSize # oldSize
    /\ DoubleGreater(sizeDifferencePercent(newSize, oldSize), threshold)

\* a plausible slip: no guard for oldSize = 0, so that the division gives
\* Infinity (NaN for newSize = 0, which compares false); -1 stands for the
\* percentage printed as "Infinity"
checkFileSizeChange_NoZeroGuard(newSize, oldSize, threshold, fileName) ==
    IF oldSize = 0 /\ newSize = 0 THEN [changed |-> FALSE, warning |-> NoWarning]
    ELSE IF oldSize = 0 \/ ExceedsThreshold(newSize, oldSize, threshold)
         THEN [changed |-> TRUE,
               warning |-> Warning(fileName,
                                   IF newSize > oldSize THEN "increased" ELSE "decreased",
                                   IF oldSize = 0 THEN -1
                                   ELSE PercentFixed2(newSize, oldSize),
                                   oldSize, newSize)]
         ELSE [changed |-> FALSE, warning |-> NoWarning]

checkFileSizeChange(newSize, oldSize, threshold, fileName) ==
    IF oldSize = 0 THEN [changed |-> FALSE, warning |-> NoWarning]
    ELSE IF ExceedsThreshold(newSize, oldSize, threshold)
         THEN [changed |-> TRUE,
               warning |-> Warning(fileName, changeDirection(newSize, oldSize),
                                   PercentFixed2(newSize, oldSize), oldSize, newSize)]
         ELSE [changed |-> FALSE, warning |-> NoWarning]

-----------------------------------------------------------------------------
(* Configuration, templates and paths *)

BASEURL_PLACEHOLDER == <<"{", "b", "a", "s", "e", "U", "r", "l", "}">>
DATE_PLACEHOLDER == <<"{", "0", "}">>

DEFAULT_CONFIG ==
    [outputDir |-> "data",
     sizeChangeThresholdPercent |-> 20,
     baseUrl |-> <<"h", ":">>,
     dateFormat |-> "yyyyMMdd"]

\* the file names of DEFAULT_URL_TEMPLATES, each one piece of text
DefaultNames ==
    <<"edubasealldata", "links_edubasealldata", "edubaseallstatefunded",
      "links_edubaseallstatefunded", "edubaseallacademiesandfree",
      "links_edubaseallacademiesandfree", "grouplinks_edubaseallacademiesandfree",
      "edubaseallchildrencentre", "academiesmatmembership", "governancealldata",
      "governancematdata", "governanceacaddata", "governanceladata">>

\* { urlTemplate: '{baseUrl}/NAME{0}.csv', outputFile: 'NAME.csv' }, ...
DEFAULT_URL_TEMPLATES ==
    [i \in 1..Len(DefaultNames) |->
        [urlTemplate |-> BASEURL_PLACEHOLDER \o <<"/", DefaultNames[i]>>
                         \o DATE_PLACEHOLDER \o <<".", "c", "s", "v">>,
         outputFile |-> DefaultNames[i] \o ".csv"]]

\* a plausible slip: the spread the other way round, the defaults winning
MergeConfig_DefaultsWin(defaults, overrides) ==
    [k \in DOMAIN defaults \cup DOMAIN overrides |->
        IF k \in DOMAIN defaults THEN defaults[k] ELSE overrides[k]]

\* { ...DEFAULT_CONFIG, ...options.config }
MergeConfig(defaults, overrides) ==
    [k \in DOMAIN defaults \cup DOMAIN overrides |->
        IF k \in DOMAIN overrides THEN overrides[k] ELSE defaults[k]]

\* const config = { ...DEFAULT_CONFIG, ...options.config }
Config == MergeConfig(DEFAULT_CONFIG, opts.config)

\* const templates = options.urlTemplates
Templates == opts.urlTemplates

\* path.join(config.outputDir, template.outputFile): a path is the sequence
\* of its components
OutputPath(outputDir, outputFile) == <<outputDir, outputFile>>

\* a plausible slip: one temp file under outputDir for every template
TempPath_Shared(outputPath) ==
    [outputPath EXCEPT ![Len(outputPath)] = "a.csv.tmp"]

\* `${outputPath}.tmp`
TempPath(outputPath) ==
    [outputPath EXCEPT ![Len(outputPath)] = outputPath[Len(outputPath)] \o ".tmp"]

\* path.basename(outputPath)
Basename(outputPath) == outputPath[Len(outputPath)]

\* template.urlTemplate.replace('{baseUrl}', config.baseUrl).replace('{0}', dateStr)
ExpandUrl(urlTemplate, baseUrl, date) ==
    ReplaceFirst(ReplaceFirst(urlTemplate, BASEURL_PLACEHOLDER, baseUrl),
                 DATE_PLACEHOLDER, date)

DigitChars == <<"0", "1", "2", "3", "4", "5", "6", "7", "8", "9">>

RECURSIVE ZeroPad(_, _)
\* n in decimal, zero-padded on the left to width digits
ZeroPad(n, width) ==
    IF width = 0 THEN <<>>
    ELSE ZeroPad(n \div 10, width - 1) \o <<DigitChars[(n % 10) + 1]>>

\* date-fns format() rejects an invalid Date with a RangeError
FormatThrows(date, pattern) == ~date.valid

\* format(date, 'yyyyMMdd')
FormatDate(date, pattern) ==
    ZeroPad(date.y, 4) \o ZeroPad(date.m, 2) \o ZeroPad(date.d, 2)

-----------------------------------------------------------------------------
(* The inputs of a run *)

TemplateA ==
    [urlTemplate |-> BASEURL_PLACEHOLDER \o <<"/", "a">> \o DATE_PLACEHOLDER,
     outputFile |-> "a.csv"]
TemplateB ==
    [urlTemplate |-> BASEURL_PLACEHOLDER \o <<"/", "b">> \o DATE_PLACEHOLDER,
     outputFile |-> "b.csv"]

\* a template whose outputFile is the temp name of TemplateA's
TemplateC ==
    [urlTemplate |-> BASEURL_PLACEHOLDER \o <<"/", "c">> \o DATE_PLACEHOLDER,
     outputFile |-> "a.csv.tmp"]

TemplateCatalog == {TemplateA, TemplateB}

\* options.urlTemplates: every list over the catalog, and the two lists in
\* which one template's final path is the other's temp path
TemplateLists ==
    UNION {[1..n -> TemplateCatalog] : n \in 0..MaxTemplates}
    \cup {<<TemplateA, TemplateC>>, <<TemplateC, TemplateA>>}

Dates == {[valid |-> TRUE, y |-> 2025, m |-> 7, d |-> 9],
          [valid |-> FALSE, y |-> 0, m |-> 0, d |-> 0]}

ConfigOverrides == {<<>>, [sizeChangeThresholdPercent |-> 0]}

\* response bodies the transport may deliver
Csv5 == <<"a", ",", "b", ",", "c">>
Csv6 == <<"a", ",", "b", ",", "c", "d">>
HtmlPage == HTML \o <<",">>
PlainText == <<"a", "b">>

Bodies == {Csv5, Csv6, HtmlPage, PlainText}

Responses ==
    {[ok |-> TRUE, status |-> 200, body |-> b] : b \in Bodies}
    \cup {[ok |-> FALSE, status |-> 404, body |-> PlainText]}

NoResponse == [ok |-> FALSE, status |-> 0, body |-> <<>>]

\* files
Absent == [exists |-> FALSE, data |-> <<>>]
File(data) == [exists |-> TRUE, data |-> data]

PathA == OutputPath(DEFAULT_CONFIG.outputDir, "a.csv")
PathB == OutputPath(DEFAULT_CONFIG.outputDir, "b.csv")

PathC == OutputPath(DEFAULT_CONFIG.outputDir, "a.csv.tmp")

AllPaths == {PathA, PathB, PathC, TempPath(PathA), TempPath(PathB), TempPath(PathC)}

EmptyFs == [p \in AllPaths |-> Absent]

StaleTemp == <<"x">>

\* what an earlier run or the caller may have left under an existing outputDir
InitialFileSystems ==
    {EmptyFs,
     [EmptyFs EXCEPT ![PathA] = File(Csv5)],
     [EmptyFs EXCEPT ![PathA] = File(<<>>)],
     [EmptyFs EXCEPT ![TempPath(PathA)] = File(StaleTemp)],
     [EmptyFs EXCEPT ![PathA] = File(Csv5), ![TempPath(PathA)] = File(StaleTemp)]}

-----------------------------------------------------------------------------
(* downloadFile: the frame of a call and its steps *)

Fail == [success |-> FALSE, warning |-> NoWarning]

IdleFrame ==
    [pc |-> "idle", url |-> <<>>, outputPath |-> <<>>, tempPath |-> <<>>,
     sizeChangeThreshold |-> 0, response |-> NoResponse, content |-> <<>>,
     newFileSize |-> 0, sizeWarning |-> NoWarning, result |-> Fail,
     cause |-> "none", unlinkFailed |-> FALSE, compared |-> FALSE,
     before |-> EmptyFs]

\* downloadFile(url, outputPath, tempPath, sizeChangeThreshold, fetchFn) entered;
\* before remembers the files as the call found them
NewCall(url, outputPath, tempPath, sizeChangeThreshold, files) ==
    [IdleFrame EXCEPT !.pc = "fetch", !.url = url, !.outputPath = outputPath,
                      !.tempPath = tempPath,
                      !.sizeChangeThreshold = sizeChangeThreshold, !.before = files]

\* return r
Return(d, r) == [d EXCEPT !.pc = "ret", !.result = r]

\* a plausible slip: a failure returns at once, the temp file not cleaned up
Throw_NoCleanup(d, cause) == Return([d EXCEPT !.cause = cause], Fail)

\* an exception thrown inside the try block: control moves to the catch block
Throw(d, cause) ==
    [d EXCEPT !.pc = "catch", !.cause = IF d.cause = "none" THEN cause ELSE d.cause]

\* a plausible slip: a size change above the threshold rejects the download
OnSizeChange_Block(d, sizeChange) ==
    IF sizeChange.changed THEN Return([d EXCEPT !.compared = TRUE], Fail)
    ELSE [d EXCEPT !.compared = TRUE, !.pc = "rename"]

\* if (sizeChange.warning) sizeWarning = sizeChange.warning; compared
\* remembers that checkFileSizeChange was called
OnSizeChange(d, sizeChange) ==
    [d EXCEPT !.sizeWarning = sizeChange.warning, !.compared = TRUE, !.pc = "rename"]

\* if (!response.ok) return { success: false, warning: null }
OnHttpError(d) == Return([d EXCEPT !.cause = "status"], Fail)

\* a plausible slip: the validation result ignored
OnInvalid_Accept(d) == [d EXCEPT !.pc = "write"]

\* a plausible slip: invalid content thrown into the catch block
OnInvalid_Throw(d) == Throw(d, "invalid")

\* if (!validation.isValid) return { success: false, warning: null }
OnInvalid(d) == Return([d EXCEPT !.cause = "invalid"], Fail)

\* a plausible slip: the body written to the final path directly
WritePath_Final(d) == d.outputPath

\* fs.writeFile(tempPath, content)
WritePath(d) == d.tempPath

\* a plausible slip: writeFile appending to what the file holds
WriteFileFs_Append(files, path, content) ==
    [files EXCEPT ![path] = File(files[path].data \o content)]

\* fs.writeFile(path, content) completed: create or truncate, then the whole content
WriteFileFs(files, path, content) == [files EXCEPT ![path] = File(content)]

\* fs.writeFile(path, content) failed: the file untouched, or created/truncated
\* with a proper prefix of the content
WriteFileFailures(files, path, content) ==
    {files} \cup {[files EXCEPT ![path] = File(SubSeq(content, 1, k))] :
                     k \in 0..(Len(content) - 1)}

\* a plausible slip: a copy in place of the rename
RenameFs_Copy(files, from, to) == [files EXCEPT ![to] = files[from]]

\* fs.rename(from, to) completed
RenameFs(files, from, to) == [files EXCEPT ![to] = files[from], ![from] = Absent]

\* fs.unlink(path) completed
UnlinkFs(files, path) == [files EXCEPT ![path] = Absent]

\* a plausible slip: the delete attempted without looking for the file
OnCatch_UnlinkBlindly(d, tempExists) == [d EXCEPT !.pc = "unlink"]

\* catch: if (await fs.access(tempPath)...) await fs.unlink(tempPath);
\* otherwise return { success: false, warning: null }
OnCatch(d, tempExists) ==
    IF tempExists THEN [d EXCEPT !.pc = "unlink"] ELSE Return(d, Fail)

\* a plausible slip: the cleanup error escaping downloadFile
OnCleanupError_Raise(d) == [d EXCEPT !.pc = "raised", !.unlinkFailed = TRUE]

\* catch (cleanupError) { ...; return { success: false, warning: null } }
OnCleanupError(d) == Return([d EXCEPT !.unlinkFailed = TRUE], Fail)

-----------------------------------------------------------------------------
(* Initial states *)

\* the size-check run and the URL run at rest
NoSizeRun == [newSize |-> 0, oldSize |-> 0, threshold |-> 0, done |-> FALSE,
              result |-> [changed |-> FALSE, warning |-> NoWarning]]
NoUrlRun == [urlTemplate |-> <<>>, baseUrl |-> <<>>, date |-> <<>>, done |-> FALSE,
             url |-> <<>>]

\* no run yet: DEFAULT_CONFIG as the module defines it
NoConfigRun == [defaults |-> DEFAULT_CONFIG, overrides |-> <<>>, runs |-> 0,
                first |-> DEFAULT_CONFIG, second |-> DEFAULT_CONFIG]

Init ==
    /\ opts \in [date : Dates, config : ConfigOverrides, urlTemplates : TemplateLists]
    /\ dirExists \in BOOLEAN
    /\ fs \in (IF dirExists THEN InitialFileSystems ELSE {EmptyFs})
    /\ pc = "access"
    /\ dateStr = <<>>
    /\ idx = 1
    /\ downloadedFiles = <<>>
    /\ skippedFiles = <<>>
    /\ fileSizeWarnings = <<>>
    /\ dl = IdleFrame
    /\ calls = <<>>
    /\ returns = <<>>
    /\ exitCode = -1
    /\ error = "none"
    /\ fsAtStart = fs
    /\ vcontent = <<>>
    /\ vresult = validateCSVContent(<<>>)
    /\ vlegacy = NotCompared
    /\ sizeRun = NoSizeRun
    /\ urlRun = NoUrlRun
    /\ configRun = NoConfigRun

-----------------------------------------------------------------------------
(* downloadFile, one action per awaited operation *)

InCall(at) == pc = "call" /\ dl.pc = at

\* fetchFn(url) is called: the request is in flight
DL_Fetch ==
    /\ InCall("fetch")
    /\ calls' = Append(calls, dl.url)
    /\ dl' = [dl EXCEPT !.pc = "response"]
    /\ UNCHANGED <<opts, fsAtStart, error, dirExists, fs, pc, dateStr, idx, downloadedFiles, skippedFiles,
                   fileSizeWarnings, returns, exitCode, vcontent, vresult, vlegacy, sizeRun, urlRun, configRun>>

\* the awaited request settles: the transport rejects, or delivers a
\* response; if (!response.ok) return
DL_Response ==
    /\ InCall("response")
    /\ \/ dl' = Throw(dl, "transport")
       \/ \E r \in Responses :
            dl' = IF ~r.ok THEN OnHttpError([dl EXCEPT !.response = r])
                  ELSE [dl EXCEPT !.response = r, !.pc = "text"]
    /\ UNCHANGED <<opts, fsAtStart, error, dirExists, fs, pc, dateStr, idx, downloadedFiles, skippedFiles,
                   fileSizeWarnings, calls, returns, exitCode, vcontent, vresult, vlegacy, sizeRun, urlRun, configRun>>

\* const content = await response.text(), then the validation
DL_Text ==
    /\ InCall("text")
    /\ \/ dl' = Throw(dl, "text")
       \/ LET content == dl.response.body
              d == [dl EXCEPT !.content = content]
          IN  dl' = IF ~validateCSVContent(content).isValid THEN OnInvalid(d)
                    ELSE [d EXCEPT !.pc = "write"]
    /\ UNCHANGED <<opts, fsAtStart, error, dirExists, fs, pc, dateStr, idx, downloadedFiles, skippedFiles,
                   fileSizeWarnings, calls, returns, exitCode, vcontent, vresult, vlegacy, sizeRun, urlRun, configRun>>

\* await fs.writeFile(tempPath, content)
DL_WriteFile ==
    /\ InCall("write")
    /\ \/ /\ dirExists
          /\ fs' = WriteFileFs(fs, WritePath(dl), dl.content)
          /\ dl' = [dl EXCEPT !.pc = "statTemp"]
       \/ /\ fs' \in (IF dirExists THEN WriteFileFailures(fs, WritePath(dl), dl.content)
                      ELSE {fs})
          /\ dl' = Throw(dl, "write")
    /\ UNCHANGED <<opts, fsAtStart, error, dirExists, pc, dateStr, idx, downloadedFiles, skippedFiles,
                   fileSizeWarnings, calls, returns, exitCode, vcontent, vresult, vlegacy, sizeRun, urlRun, configRun>>

\* const newFileSize = (await fs.stat(tempPath)).size
DL_StatTemp ==
    /\ InCall("statTemp")
    /\ \/ /\ fs[dl.tempPath].exists
          /\ dl' = [dl EXCEPT !.newFileSize = Len(fs[dl.tempPath].data),
                              !.pc = "accessOutput"]
       \/ dl' = Throw(dl, "stat")
    /\ UNCHANGED <<opts, fsAtStart, error, dirExists, fs, pc, dateStr, idx, downloadedFiles, skippedFiles,
                   fileSizeWarnings, calls, returns, exitCode, vcontent, vresult, vlegacy, sizeRun, urlRun, configRun>>

\* if (await fs.access(outputPath).then(() => true).catch(() => false))
DL_AccessOutput ==
    /\ InCall("accessOutput")
    /\ dl' = [dl EXCEPT !.pc = IF fs[dl.outputPath].exists THEN "statOutput" ELSE "rename"]
    /\ UNCHANGED <<opts, fsAtStart, error, dirExists, fs, pc, dateStr, idx, downloadedFiles, skippedFiles,
                   fileSizeWarnings, calls, returns, exitCode, vcontent, vresult, vlegacy, sizeRun, urlRun, configRun>>

\* const existingFileSize = (await fs.stat(outputPath)).size, then checkFileSizeChange
DL_StatOutput ==
    /\ InCall("statOutput")
    /\ \/ dl' = Throw(dl, "stat")
       \/ LET existingFileSize == Len(fs[dl.outputPath].data)
              sizeChange == checkFileSizeChange(dl.newFileSize, existingFileSize,
                                                dl.sizeChangeThreshold,
                                                Basename(dl.outputPath))
          IN  /\ fs[dl.outputPath].exists
              /\ dl' = OnSizeChange(dl, sizeChange)
    /\ UNCHANGED <<opts, fsAtStart, error, dirExists, fs, pc, dateStr, idx, downloadedFiles, skippedFiles,
                   fileSizeWarnings, calls, returns, exitCode, vcontent, vresult, vlegacy, sizeRun, urlRun, configRun>>

\* await fs.rename(tempPath, outputPath); return { success: true, warning: sizeWarning }
DL_Rename ==
    /\ InCall("rename")
    /\ \/ /\ fs[dl.tempPath].exists
          /\ fs' = RenameFs(fs, dl.tempPath, dl.outputPath)
          /\ dl' = Return(dl, [success |-> TRUE, warning |-> dl.sizeWarning])
       \/ /\ dl' = Throw(dl, "rename")
          /\ UNCHANGED fs
    /\ UNCHANGED <<opts, fsAtStart, error, dirExists, pc, dateStr, idx, downloadedFiles, skippedFiles,
                   fileSizeWarnings, calls, returns, exitCode, vcontent, vresult, vlegacy, sizeRun, urlRun, configRun>>

\* catch: if (await fs.access(tempPath).then(() => true).catch(() => false))
DL_CleanupAccess ==
    /\ InCall("catch")
    /\ dl' = OnCatch(dl, fs[dl.tempPath].exists)
    /\ UNCHANGED <<opts, fsAtStart, error, dirExists, fs, pc, dateStr, idx, downloadedFiles, skippedFiles,
                   fileSizeWarnings, calls, returns, exitCode, vcontent, vresult, vlegacy, sizeRun, urlRun, configRun>>

\* catch: await fs.unlink(tempPath)
DL_Unlink ==
    /\ InCall("unlink")
    /\ \/ /\ fs' = UnlinkFs(fs, dl.tempPath)
          /\ dl' = Return(dl, Fail)
       \/ /\ dl' = OnCleanupError(dl)
          /\ UNCHANGED fs
    /\ UNCHANGED <<opts, fsAtStart, error, dirExists, pc, dateStr, idx, downloadedFiles, skippedFiles,
                   fileSizeWarnings, calls, returns, exitCode, vcontent, vresult, vlegacy, sizeRun, urlRun, configRun>>

-----------------------------------------------------------------------------
(* fetchData *)

\* try { await fs.access(config.outputDir) } catch { await fs.mkdir(...) }
FD_AccessDir ==
    /\ pc = "access"
    /\ pc' = IF dirExists THEN "format" ELSE "mkdir"
    /\ UNCHANGED <<opts, fsAtStart, error, dirExists, fs, dateStr, idx, downloadedFiles,
                   skippedFiles, fileSizeWarnings, dl, calls, returns, exitCode,
                   vcontent, vresult, vlegacy, sizeRun, urlRun, configRun>>

\* a plausible slip: the mkdir error swallowed, the run going on
OnMkdirError_Swallow == [pc |-> "format", error |-> "none"]

\* fs.mkdir rejects inside the catch clause: nothing catches it, fetchData rejects
OnMkdirError == [pc |-> "threw", error |-> "mkdir"]

\* await fs.mkdir(config.outputDir, { recursive: true })
FD_Mkdir ==
    /\ pc = "mkdir"
    /\ \/ /\ dirExists' = TRUE
          /\ pc' = "format"
          /\ UNCHANGED error
       \/ /\ pc' = OnMkdirError.pc
          /\ error' = OnMkdirError.error
          /\ UNCHANGED dirExists
    /\ UNCHANGED <<opts, fsAtStart, fs, dateStr, idx, downloadedFiles,
                   skippedFiles, fileSizeWarnings, dl, calls, returns, exitCode,
                   vcontent, vresult, vlegacy, sizeRun, urlRun, configRun>>

\* const dateStr = format(date, config.dateFormat)
FD_Format ==
    /\ pc = "format"
    /\ IF FormatThrows(opts.date, Config.dateFormat)
       THEN pc' = "threw" /\ error' = "format" /\ UNCHANGED dateStr
       ELSE /\ dateStr' = FormatDate(opts.date, Config.dateFormat)
            /\ pc' = "loop"
            /\ UNCHANGED error
    /\ UNCHANGED <<opts, fsAtStart, dirExists, fs, idx, downloadedFiles,
                   skippedFiles, fileSizeWarnings, dl, calls, returns, exitCode,
                   vcontent, vresult, vlegacy, sizeRun, urlRun, configRun>>

\* a plausible slip: the loop left one template early
LoopDone_OffByOne(i, n) == i >= n

\* for (const template of templates): the iteration is over
LoopDone(i, n) == i > n

\* for (const template of templates): the next template's paths and URL, and
\* the call of downloadFile; past the last template, the summary and the return
FD_Loop ==
    /\ pc = "loop"
    /\ IF LoopDone(idx, Len(Templates))
       THEN pc' = "done" /\ UNCHANGED dl
       ELSE LET template == Templates[idx]
                outputPath == OutputPath(Config.outputDir, template.outputFile)
                tempPath == TempPath(outputPath)
                url == ExpandUrl(template.urlTemplate, Config.baseUrl, dateStr)
            IN  /\ dl' = NewCall(url, outputPath, tempPath,
                                 Config.sizeChangeThresholdPercent, fs)
                /\ pc' = "call"
    /\ UNCHANGED <<opts, fsAtStart, error, dirExists, fs, dateStr, idx, downloadedFiles,
                   skippedFiles, fileSizeWarnings, calls, returns, exitCode,
                   vcontent, vresult, vlegacy, sizeRun, urlRun, configRun>>

\* history: what the call returned, with its temp path and whether its
\* cleanup delete failed
ReturnRecord(d) ==
    [success |-> d.result.success, warning |-> d.result.warning,
     tempPath |-> d.tempPath, unlinkFailed |-> d.unlinkFailed]

\* a plausible slip: the bare file name filed in place of the joined path
DownloadedEntry_Name(template, outputPath) == <<template.outputFile>>

\* downloadedFiles.push(outputPath)
DownloadedEntry(template, outputPath) == outputPath

\* skippedFiles.push(template.outputFile)
SkippedEntry(template, outputPath) == template.outputFile

\* a plausible slip: a failed template fetched again
NextIndex_RetryFailed(i, result) == IF result.success THEN i + 1 ELSE i

\* for (const template of templates): the iteration moves to the next
\* template whatever the result
NextIndex(i, result) == i + 1

\* a plausible slip: the warning pushed without the test for null
PushWarning_Always(warnings, result) == Append(warnings, result.warning)

\* if (result.warning) fileSizeWarnings.push(result.warning)
PushWarning(warnings, result) ==
    IF ~result.warning.null THEN Append(warnings, result.warning) ELSE warnings

\* a plausible slip: the loop left at the first failed template
AfterTemplate_StopOnFailure(result) == IF result.success THEN "loop" ELSE "done"

\* the loop goes on to the next template whatever the result
AfterTemplate(result) == "loop"

\* const result = await downloadFile(...) resumes: the result is filed; an
\* exception out of downloadFile would reject fetchData
FD_Collect ==
    /\ pc = "call"
    /\ dl.pc \in {"ret", "raised"}
    /\ IF dl.pc = "raised"
       THEN /\ pc' = "threw"
            /\ error' = "downloadFile"
            /\ UNCHANGED <<idx, downloadedFiles, skippedFiles, fileSizeWarnings, returns>>
       ELSE LET result == dl.result
                template == Templates[idx]
            IN  /\ IF result.success
                   THEN /\ downloadedFiles' =
                             Append(downloadedFiles, DownloadedEntry(template, dl.outputPath))
                        /\ fileSizeWarnings' = PushWarning(fileSizeWarnings, result)
                        /\ UNCHANGED skippedFiles
                   ELSE /\ skippedFiles' =
                             Append(skippedFiles, SkippedEntry(template, dl.outputPath))
                        /\ UNCHANGED <<downloadedFiles, fileSizeWarnings>>
                /\ returns' = Append(returns, ReturnRecord(dl))
                /\ idx' = NextIndex(idx, result)
                /\ pc' = AfterTemplate(result)
                /\ UNCHANGED error
    /\ dl' = IdleFrame
    /\ UNCHANGED <<opts, fsAtStart, dirExists, fs, dateStr, calls, exitCode,
                   vcontent, vresult, vlegacy, sizeRun, urlRun, configRun>>

\* a plausible slip: a run with skipped files reported as a failure
EntryPointExitCode_FailOnSkipped ==
    IF pc = "done" /\ skippedFiles = <<>> THEN 0 ELSE 1

\* fetchData().then(() => process.exit(0)).catch(() => process.exit(1))
EntryPointExitCode == IF pc = "done" THEN 0 ELSE 1

\* the entry point, once fetchData has settled
EntryPoint_Exit ==
    /\ pc \in {"done", "threw"}
    /\ exitCode = -1
    /\ exitCode' = EntryPointExitCode
    /\ UNCHANGED <<opts, fsAtStart, error, dirExists, fs, pc, dateStr, idx, downloadedFiles,
                   skippedFiles, fileSizeWarnings, dl, calls, returns, vcontent, vresult, vlegacy, sizeRun, urlRun, configRun>>

Next ==
    \/ FD_AccessDir \/ FD_Mkdir \/ FD_Format \/ FD_Loop \/ FD_Collect
    \/ DL_Fetch \/ DL_Response \/ DL_Text \/ DL_WriteFile \/ DL_StatTemp
    \/ DL_AccessOutput \/ DL_StatOutput \/ DL_Rename \/ DL_CleanupAccess \/ DL_Unlink
    \/ EntryPoint_Exit

Spec == Init /\ [][Next]_vars

\* every awaited operation completes, by returning or by failing, and the
\* continuation then runs: a run that can take a step eventually takes one
\* The runs start with the default configuration, in an empty directory or
\* one that holds a final file and a stale temp file.
InitLive ==
    /\ Init
    /\ opts.config = <<>>
    /\ fs \in {EmptyFs,
               [EmptyFs EXCEPT ![PathA] = File(Csv5), ![TempPath(PathA)] = File(StaleTemp)]}

SpecLive == InitLive /\ [][Next]_vars /\ WF_vars(Next)

-----------------------------------------------------------------------------
(* Validator runs: a content drawn from the bounded set, then validated *)

Pieces == {DOCTYPE, HTML, BODY, HEAD, <<",">>, <<NL>>, <<"x">>, <<"<">>}

RECURSIVE ContentsUpTo(_)
\* the concatenations of at most n pieces
ContentsUpTo(n) ==
    IF n = 0 THEN {<<>>}
    ELSE LET shorter == ContentsUpTo(n - 1)
         IN  shorter \cup {c \o p : c \in shorter, p \in Pieces}

NotValidated == [isValid |-> FALSE, reason |-> "not validated"]

\* fetchData at rest, for the runs of the pure functions
FetchIdle ==
    /\ opts = [date |-> [valid |-> TRUE, y |-> 2025, m |-> 7, d |-> 9],
               config |-> <<>>, urlTemplates |-> <<>>]
    /\ dirExists = TRUE
    /\ fs = EmptyFs
    /\ pc = "access"
    /\ dateStr = <<>>
    /\ idx = 1
    /\ downloadedFiles = <<>>
    /\ skippedFiles = <<>>
    /\ fileSizeWarnings = <<>>
    /\ dl = IdleFrame
    /\ calls = <<>>
    /\ returns = <<>>
    /\ exitCode = -1
    /\ error = "none"
    /\ fsAtStart = EmptyFs

InitValidate ==
    /\ FetchIdle
    /\ sizeRun = NoSizeRun
    /\ urlRun = NoUrlRun
    /\ configRun = NoConfigRun
    /\ vcontent \in ContentsUpTo(MaxPieces)
    /\ vresult = NotValidated
    /\ vlegacy = NotCompared

\* validateCSVContent(content)
V_Validate ==
    /\ vresult = NotValidated
    /\ vresult' = validateCSVContent(vcontent)
    /\ UNCHANGED <<vcontent, vlegacy, fetchVars, sizeVars, urlVars, configVars>>

\* isHtmlContent(content) and isValidCsv(content), the legacy helpers
V_Legacy ==
    /\ ~vlegacy.done
    /\ vlegacy' = [done |-> TRUE, isHtml |-> isHtmlContent(vcontent),
                   isCsv |-> isValidCsv(vcontent)]
    /\ UNCHANGED <<vcontent, vresult, fetchVars, sizeVars, urlVars, configVars>>

NextValidate == V_Validate \/ V_Legacy

SpecValidate == InitValidate /\ [][NextValidate]_vars

-----------------------------------------------------------------------------
(* Size-check runs: sizes and a threshold drawn from the bounded sets, then
   checkFileSizeChange applied *)

Thresholds == {0, 20, 28}

InitSize ==
    /\ FetchIdle
    /\ vcontent = <<>>
    /\ vresult = NotValidated
    /\ vlegacy = NotCompared
    /\ urlRun = NoUrlRun
    /\ configRun = NoConfigRun
    /\ \E n \in 0..MaxSize, o \in 0..MaxSize, t \in Thresholds :
          sizeRun = [NoSizeRun EXCEPT !.newSize = n, !.oldSize = o, !.threshold = t]

\* checkFileSizeChange(newSize, oldSize, threshold, fileName)
S_Check ==
    /\ ~sizeRun.done
    /\ sizeRun' = [sizeRun EXCEPT
                      !.done = TRUE,
                      !.result = checkFileSizeChange(sizeRun.newSize, sizeRun.oldSize,
                                                     sizeRun.threshold, "a.csv")]
    /\ UNCHANGED <<fetchVars, validatorVars, urlVars, configVars>>

NextSize == S_Check

SpecSize == InitSize /\ [][NextSize]_vars

-----------------------------------------------------------------------------
(* URL runs: a template built from pieces, a base URL and a date token, then
   the expansion of fetchData applied *)

UrlPieces == {BASEURL_PLACEHOLDER, DATE_PLACEHOLDER, <<"/">>, <<"a">>}

RECURSIVE UrlTemplatesUpTo(_)
UrlTemplatesUpTo(n) ==
    IF n = 0 THEN {<<>>}
    ELSE LET shorter == UrlTemplatesUpTo(n - 1)
         IN  shorter \cup {t \o q : t \in shorter, q \in UrlPieces}

\* config.baseUrl: plain, with each $ pattern of replace(), with a $ that
\* is no pattern, and with the date placeholder in it
BaseUrls ==
    {DEFAULT_CONFIG.baseUrl,
     <<"h", "$", "$">>, <<"h", "$", "&">>, <<"h", "$", Backtick>>, <<"h", "$", "'">>,
     <<"h", "$", "1">>, <<"h", "$">>, <<"h">> \o DATE_PLACEHOLDER}

InitUrl ==
    /\ FetchIdle
    /\ vcontent = <<>>
    /\ vresult = NotValidated
    /\ vlegacy = NotCompared
    /\ sizeRun = NoSizeRun
    /\ configRun = NoConfigRun
    /\ \E t \in UrlTemplatesUpTo(MaxUrlPieces), b \in BaseUrls :
          urlRun = [NoUrlRun EXCEPT
                       !.urlTemplate = t, !.baseUrl = b,
                       !.date = FormatDate([valid |-> TRUE, y |-> 2025, m |-> 7, d |-> 9],
                                           DEFAULT_CONFIG.dateFormat)]

\* const url = template.urlTemplate.replace(...).replace(...)
U_Expand ==
    /\ ~urlRun.done
    /\ urlRun' = [urlRun EXCEPT
                     !.done = TRUE,
                     !.url = ExpandUrl(urlRun.urlTemplate, urlRun.baseUrl, urlRun.date)]
    /\ UNCHANGED <<fetchVars, validatorVars, sizeVars, configVars>>

NextUrl == U_Expand

SpecUrl == InitUrl /\ [][NextUrl]_vars

-----------------------------------------------------------------------------
(* Config runs: fetchData called with overrides, then called again without;
   DEFAULT_CONFIG is an object of the module, so it stands in the state *)

\* overrides o with field k supplied as v
Supply(o, k, v) == [j \in DOMAIN o \cup {k} |-> IF j = k THEN v ELSE o[j]]

\* each of overridesSet as it is, and with field k supplied as a value of values
Optional(overridesSet, k, values) ==
    overridesSet \cup {Supply(o, k, v) : o \in overridesSet, v \in values}

\* options.config: every choice of fields supplied
ConfigOverrideSets ==
    Optional(Optional(Optional(Optional({<<>>},
        "outputDir", {"out", "data"}),
        "sizeChangeThresholdPercent", {0, 20, 50}),
        "baseUrl", {<<"g">>}),
        "dateFormat", {"yyyy"})

InitConfig ==
    /\ FetchIdle
    /\ vcontent = <<>>
    /\ vresult = NotValidated
    /\ vlegacy = NotCompared
    /\ sizeRun = NoSizeRun
    /\ urlRun = NoUrlRun
    /\ \E o \in ConfigOverrideSets : configRun = [NoConfigRun EXCEPT !.overrides = o]

\* fetchData({ config: overrides }): const config = { ...DEFAULT_CONFIG,
\* ...options.config }; nothing assigns to DEFAULT_CONFIG or its fields
G_Run ==
    /\ configRun.runs = 0
    /\ configRun' = [configRun EXCEPT
                        !.runs = 1,
                        !.first = MergeConfig(configRun.defaults, configRun.overrides)]
    /\ UNCHANGED <<fetchVars, validatorVars, sizeVars, urlVars>>

\* fetchData() afterwards, without overrides
G_RunAgain ==
    /\ configRun.runs = 1
    /\ configRun' = [configRun EXCEPT
                        !.runs = 2,
                        !.second = MergeConfig(configRun.defaults, <<>>)]
    /\ UNCHANGED <<fetchVars, validatorVars, sizeVars, urlVars>>

NextConfig == G_Run \/ G_RunAgain

SpecConfig == InitConfig /\ [][NextConfig]_vars

-----------------------------------------------------------------------------
(* Properties *)

\* downloadFile has returned and fetchData has not resumed yet
Returned == pc = "call" /\ dl.pc = "ret"

\* the call returned before writing: non-2xx status or invalid content
ReturnedEarly == dl.cause \in {"status", "invalid"}

\* C1 (as stated): whenever downloadFile returns, tempPath does not exist.
C1_TempAbsentOnReturn ==
    Returned => ~fs[dl.tempPath].exists

\* C1 (amended): when downloadFile returns, tempPath exists exactly when the
\* cleanup delete failed, or the call returned early (non-2xx status or
\* invalid content) and tempPath already existed before the call; otherwise
\* it was removed or renamed over finalPath.
C1_TempAbsentUnlessLeft ==
    Returned =>
        /\ fs[dl.tempPath].exists <=>
              \/ dl.unlinkFailed
              \/ ReturnedEarly /\ dl.before[dl.tempPath].exists
        /\ dl.result.success => fs[dl.outputPath] = File(dl.content)

C1_Witness ==
    /\ Returned
    /\ dl.before[dl.tempPath].exists
    /\ ~fs[dl.tempPath].exists

\* C2: downloadFile never raises to its caller; after any failure (transport,
\* status, body read, validation, write, stat, rename, cleanup delete) it
\* returns exactly {success: false, warning: null}.
C2_NeverRaises ==
    /\ dl.pc # "raised"
    /\ error # "downloadFile"
    /\ Returned /\ (dl.cause # "none" \/ dl.unlinkFailed) => dl.result = Fail

C2_Witness ==
    /\ Returned
    /\ dl.cause = "transport"
    /\ dl.unlinkFailed
    /\ dl.result = Fail

\* C3: whenever downloadFile returns success: false, the file at finalPath is
\* as it was before the call: same existence, same content.
C3_FailureLeavesFinal ==
    Returned /\ ~dl.result.success => fs[dl.outputPath] = dl.before[dl.outputPath]

C3_Witness ==
    /\ Returned
    /\ ~dl.result.success
    /\ dl.cause = "rename"
    /\ dl.before[dl.outputPath].exists
    /\ dl.before[dl.outputPath].data # dl.content

\* C4: whenever downloadFile returns success: true, the response was 2xx, its
\* body passed validateCSVContent, finalPath holds exactly that body, and the
\* warning is null when no final file existed before the call.
C4_SuccessCommitsBody ==
    Returned /\ dl.result.success =>
        /\ dl.response.ok
        /\ dl.response.status \in 200..299
        /\ validateCSVContent(dl.response.body).isValid
        /\ fs[dl.outputPath] = File(dl.response.body)
        /\ ~dl.before[dl.outputPath].exists => dl.result.warning = NoWarning

C4_Witness ==
    /\ Returned
    /\ dl.result.success
    /\ dl.before[dl.tempPath].exists
    /\ dl.before[dl.outputPath].exists
    /\ dl.before[dl.outputPath].data # dl.response.body

\* C5: when the status is non-2xx or the body fails validation, downloadFile
\* returns without any filesystem mutation: every file, tempPath and
\* finalPath included, is as the call found it.
C5_RejectionTouchesNothing ==
    Returned /\ ReturnedEarly => fs = dl.before /\ dl.result = Fail

C5_Witness ==
    /\ Returned
    /\ dl.cause = "invalid"
    /\ dl.before[dl.tempPath].exists
    /\ fs = dl.before

\* the URL fetchData builds for the i-th template
UrlOf(i) == ExpandUrl(Templates[i].urlTemplate, Config.baseUrl, dateStr)

\* C6: a failed template never stops the batch: when fetchData returns, every
\* template was fetched, in order, and a list with a failing and a succeeding
\* template yields non-empty downloadedFiles and non-empty skippedFiles.
C6_FailureIsolated ==
    pc = "done" =>
        /\ Len(returns) = Len(Templates)
        /\ calls = [i \in 1..Len(Templates) |-> UrlOf(i)]
        /\ (\E i \in 1..Len(returns) : returns[i].success) => downloadedFiles # <<>>
        /\ (\E i \in 1..Len(returns) : ~returns[i].success) => skippedFiles # <<>>

C6_Witness ==
    /\ pc = "done"
    /\ Len(Templates) = 2
    /\ ~returns[1].success
    /\ returns[2].success
    /\ downloadedFiles # <<>>
    /\ skippedFiles # <<>>

\* the positions of the templates whose fetch succeeded (or failed), in order
Positions(ok) ==
    SelectSeq([i \in 1..Len(returns) |-> i], LAMBDA i : returns[i].success = ok)

\* C7: when fetchData returns, downloadedFiles lists the final paths of the
\* templates that succeeded and skippedFiles the outputFile names of those
\* that failed, both in template order, one entry per template.
C7_ResultsPartitionTemplates ==
    pc = "done" =>
        /\ Len(returns) = Len(Templates)
        /\ downloadedFiles =
              [k \in 1..Len(Positions(TRUE)) |->
                  OutputPath(Config.outputDir, Templates[Positions(TRUE)[k]].outputFile)]
        /\ skippedFiles =
              [k \in 1..Len(Positions(FALSE)) |-> Templates[Positions(FALSE)[k]].outputFile]
        /\ Len(downloadedFiles) + Len(skippedFiles) = Len(Templates)

C7_Witness ==
    /\ pc = "done"
    /\ Len(Templates) = 2
    /\ Templates[1] # Templates[2]
    /\ returns[1].success
    /\ ~returns[2].success

\* C8 (as stated): the output directory exists before any fetch and is created
\* only when the existence check failed; fetchData throws only when creating
\* the directory fails, and then no transport call was made and no file written.
C8_OnlyMkdirThrows ==
    /\ calls # <<>> => dirExists
    /\ pc = "mkdir" => ~dirExists
    /\ pc = "threw" => error = "mkdir" /\ calls = <<>> /\ fs = fsAtStart

\* C8 (amended): the output directory exists before any fetch and is created
\* only when the existence check failed; fetchData throws only when creating
\* the directory fails or when formatting the date fails, and in both cases
\* no transport call was made and no file written.
C8_OnlyMkdirOrFormatThrows ==
    /\ calls # <<>> => dirExists
    /\ pc = "mkdir" => ~dirExists
    /\ pc = "threw" =>
          /\ error \in {"mkdir", "format"}
          /\ error = "mkdir" => ~dirExists
          /\ error = "format" => ~opts.date.valid
          /\ calls = <<>>
          /\ fs = fsAtStart

C8_Witness ==
    /\ pc = "threw"
    /\ error = "mkdir"
    /\ Templates # <<>>
    /\ calls = <<>>

\* C9: the entry point exits with code 0 whenever fetchData completes, however
\* many files were skipped, and with code 1 only when fetchData throws.
C9_ExitCode ==
    exitCode # -1 =>
        /\ pc = "done" => exitCode = 0
        /\ exitCode = 1 => pc = "threw"
        /\ exitCode \in {0, 1}

C9_Witness ==
    /\ exitCode = 0
    /\ Templates # <<>>
    /\ Len(skippedFiles) = Len(Templates)

\* some marker occurs somewhere in the content
HasMarker(c) ==
    \E m \in {DOCTYPE, HTML, BODY, HEAD} :
        \E i \in 1..Len(c) :
            i + Len(m) - 1 <= Len(c) /\ SubSeq(c, i, i + Len(m) - 1) = m

\* C10: every content that contains a marker anywhere, whatever its commas,
\* is reported invalid with the HTML reason.
C10_MarkerMeansHtml ==
    vresult # NotValidated /\ HasMarker(vcontent) => vresult = InvalidHtml

C10_Witness ==
    /\ vresult = InvalidHtml
    /\ Len(vcontent) >= 4
    /\ vcontent[1] = ","
    /\ SubSeq(vcontent, 2, 4) = <<NL, NL, NL>>
    /\ HasMarker(SubSeq(vcontent, 5, Len(vcontent)))

\* the number of newlines before position i of c
NewlinesBefore(c, i) == Cardinality({j \in 1..(i - 1) : c[j] = NL})

\* some comma of c stands on one of the lines 1 to 3
CommaInFirstThreeLines(c) ==
    \E i \in 1..Len(c) : c[i] = "," /\ NewlinesBefore(c, i) <= 2

\* C11: a content without HTML markers is reported valid exactly when a
\* comma stands on one of its first three newline-separated lines; otherwise
\* (the empty content, commas on line 4 or later only) it is reported
\* invalid with the comma reason.
C11_ValidIffCommaInFirstThree ==
    vresult # NotValidated /\ ~HasMarker(vcontent) =>
        /\ vresult.isValid <=> CommaInFirstThreeLines(vcontent)
        /\ ~CommaInFirstThreeLines(vcontent) => vresult = InvalidCsv
        /\ CommaInFirstThreeLines(vcontent) => vresult = Valid

C11_Witness ==
    /\ vresult = InvalidCsv
    /\ Len(vcontent) >= 4
    /\ SubSeq(vcontent, 1, 3) = <<NL, NL, NL>>
    /\ vcontent[4] = ","
    /\ ~HasMarker(vcontent)

\* the change from oldSize to newSize, as a percentage of oldSize, is
\* greater than threshold (in exact arithmetic)
ChangeAbove(newSize, oldSize, threshold) ==
    Abs(newSize - oldSize) * 100 > threshold * oldSize

\* C12: for oldSize > 0 the check yields a warning exactly when the change,
\* as a percentage of oldSize, is strictly greater than the threshold; a
\* change of exactly the threshold yields no warning.
C12_WarnsIffStrictlyAbove ==
    sizeRun.done /\ sizeRun.oldSize > 0 =>
        /\ sizeRun.result.warning # NoWarning
              <=> ChangeAbove(sizeRun.newSize, sizeRun.oldSize, sizeRun.threshold)
        /\ sizeRun.result.changed
              <=> ChangeAbove(sizeRun.newSize, sizeRun.oldSize, sizeRun.threshold)

\* the example of C12: a change of exactly 20% at threshold 20 yields no
\* warning
C12_TwentyAtTwenty ==
    /\ sizeRun.done /\ sizeRun.oldSize > 0 /\ sizeRun.threshold = 20
    /\ Abs(sizeRun.newSize - sizeRun.oldSize) * 100 = 20 * sizeRun.oldSize
    => sizeRun.result.warning = NoWarning

\* the call ran to its end with a 2xx response and a valid body, and no
\* filesystem operation failed
CleanRun ==
    /\ Returned
    /\ dl.cause = "none"
    /\ dl.response.ok
    /\ validateCSVContent(dl.response.body).isValid

\* C13: the size check returns no warning for every newSize and threshold
\* when oldSize is 0, and downloadFile compares sizes only when finalPath
\* exists; with no final file, or a final file of 0 bytes, a valid download
\* is committed and returned with warning null.
C13_NoBaselineNoWarning ==
    /\ \A n \in 0..MaxSize, t \in Thresholds \cup {dl.sizeChangeThreshold} :
          checkFileSizeChange(n, 0, t, "a.csv") = [changed |-> FALSE, warning |-> NoWarning]
    /\ dl.pc = "statOutput" => fs[dl.outputPath].exists
    /\ pc = "call" /\ dl.compared => dl.before[dl.outputPath].exists
    /\ CleanRun /\ (~dl.before[dl.outputPath].exists
                     \/ dl.before[dl.outputPath].data = <<>>) =>
          /\ dl.result = [success |-> TRUE, warning |-> NoWarning]
          /\ fs[dl.outputPath] = File(dl.response.body)
          /\ dl.compared <=> dl.before[dl.outputPath].exists

C13_Witness ==
    /\ CleanRun
    /\ dl.before[dl.outputPath] = File(<<>>)
    /\ dl.sizeChangeThreshold = 0
    /\ dl.compared
    /\ dl.result = [success |-> TRUE, warning |-> NoWarning]
    /\ fs[dl.outputPath] = File(dl.response.body)

\* the other case of C13: no final file, no comparison
C13_WitnessNoFinal ==
    /\ CleanRun
    /\ ~dl.before[dl.outputPath].exists
    /\ ~dl.compared
    /\ dl.result = [success |-> TRUE, warning |-> NoWarning]

\* the size-check run the other way round: newSize and oldSize swapped
Swapped ==
    checkFileSizeChange(sizeRun.oldSize, sizeRun.newSize, sizeRun.threshold, "a.csv")

\* both sizes positive, and the check warns in both directions
WarnsBothWays ==
    /\ sizeRun.done
    /\ sizeRun.newSize > 0 /\ sizeRun.oldSize > 0
    /\ sizeRun.result.warning # NoWarning
    /\ Swapped.warning # NoWarning

\* C14 (as stated): swapping newSize and oldSize flips the direction label
\* and yields the same percent magnitude.
C14_SwapSamePercent ==
    WarnsBothWays =>
        /\ sizeRun.result.warning.direction # Swapped.warning.direction
        /\ sizeRun.result.warning.percent100 = Swapped.warning.percent100

\* p hundredths of a percent is the change between the sizes relative to
\* base, rounded to two decimals
PercentOf(p, base) ==
    2 * Abs(p * base - 10000 * Abs(sizeRun.newSize - sizeRun.oldSize)) <= base

\* C14 (amended): swapping newSize and oldSize flips the direction label and
\* keeps the byte difference, but each percentage is relative to its own
\* oldSize, so the call with the smaller oldSize reports the larger one.
C14_SwapFlipsDirection ==
    WarnsBothWays =>
        LET w == sizeRun.result.warning
            v == Swapped.warning
        IN  /\ w.direction # v.direction
            /\ w.direction = IF sizeRun.newSize > sizeRun.oldSize
                              THEN "increased" ELSE "decreased"
            /\ w.oldSize = v.newSize /\ w.newSize = v.oldSize
            /\ PercentOf(w.percent100, sizeRun.oldSize)
            /\ PercentOf(v.percent100, sizeRun.newSize)
            /\ sizeRun.oldSize < sizeRun.newSize => w.percent100 >= v.percent100
            /\ sizeRun.oldSize > sizeRun.newSize => w.percent100 <= v.percent100

C14_Witness ==
    /\ WarnsBothWays
    /\ sizeRun.newSize = 6 /\ sizeRun.oldSize = 5
    /\ sizeRun.result.warning.direction = "increased"
    /\ sizeRun.result.warning.percent100 = 2000
    /\ Swapped.warning.direction = "decreased"
    /\ Swapped.warning.percent100 = 1667

\* the final file the call found, and the sizes the check compares
OldSize == Len(dl.before[dl.outputPath].data)
NewSize == Len(dl.response.body)

\* C15: when the final file exists with a positive size and the valid new
\* body differs from it by more than the threshold, downloadFile still
\* renames the temp file over finalPath and returns success:true with a
\* warning, which says "increased" when the new file is larger.
C15_WarningNeverBlocks ==
    /\ CleanRun
    /\ dl.before[dl.outputPath].exists
    /\ OldSize > 0
    /\ ChangeAbove(NewSize, OldSize, dl.sizeChangeThreshold)
    => /\ dl.result.success
       /\ dl.result.warning # NoWarning
       /\ dl.result.warning.direction =
              IF NewSize > OldSize THEN "increased" ELSE "decreased"
       /\ dl.result.warning.oldSize = OldSize
       /\ dl.result.warning.newSize = NewSize
       /\ fs[dl.outputPath] = File(dl.response.body)
       /\ ~fs[dl.tempPath].exists

C15_Witness ==
    /\ CleanRun
    /\ dl.before[dl.outputPath] = File(Csv5)
    /\ dl.response.body = Csv6
    /\ dl.sizeChangeThreshold = 0
    /\ dl.result.success
    /\ dl.result.warning # NoWarning
    /\ dl.result.warning.direction = "increased"
    /\ fs[dl.outputPath] = File(Csv6)

\* the final path and the temp path of template i of the run
OutputPathOf(i) == OutputPath(Config.outputDir, Templates[i].outputFile)
TempPathOf(i) == TempPath(OutputPathOf(i))

Separate(list) ==
    \A i, j \in 1..Len(list) :
        i # j => /\ list[i].outputFile # list[j].outputFile
                 /\ list[i].outputFile \o ".tmp" # list[j].outputFile

\* the built-in list is separate, and so are its paths under outputDir
DefaultSeparate ==
    /\ Separate(DEFAULT_URL_TEMPLATES)
    /\ \A i, j \in 1..Len(DEFAULT_URL_TEMPLATES) :
          LET out(k) == OutputPath(DEFAULT_CONFIG.outputDir,
                                   DEFAULT_URL_TEMPLATES[k].outputFile)
          IN  i # j => /\ out(i) # out(j)
                       /\ TempPath(out(i)) # TempPath(out(j))
                       /\ TempPath(out(i)) # out(j)

C16_WitnessOverwritten ==
    /\ pc = "call"
    /\ Templates = <<TemplateC, TemplateA>>
    /\ idx = 2
    /\ downloadedFiles = <<OutputPathOf(1)>>
    /\ dl.tempPath = OutputPathOf(1)
    /\ fs[OutputPathOf(1)] # dl.before[OutputPathOf(1)]

\* the transport calls made so far are those of the first n templates, one
\* each, in list order
CallsAreFirst(n) ==
    /\ Len(calls) = n
    /\ \A k \in 1..n : calls[k] = UrlOf(k)

\* C17: in one run the transport is invoked exactly once per template: at
\* every moment the calls made are those of the templates reached so far,
\* one each, whatever their results, and at the end those of all templates.
C17_OneCallPerTemplate ==
    /\ pc \in {"access", "mkdir", "format", "threw"} => calls = <<>>
    /\ pc = "loop" => CallsAreFirst(idx - 1) /\ Len(returns) = idx - 1
    /\ pc = "call" => /\ idx <= Len(Templates)
                      /\ Len(returns) = idx - 1
                      /\ CallsAreFirst(IF dl.pc = "fetch" THEN idx - 1 ELSE idx)
    /\ pc = "done" => CallsAreFirst(Len(Templates)) /\ Len(returns) = Len(Templates)

C17_Witness ==
    /\ pc = "done"
    /\ Templates = <<TemplateA, TemplateB>>
    /\ ~returns[1].success
    /\ returns[2].success
    /\ calls = <<UrlOf(1), UrlOf(2)>>

\* the temp paths of the run's templates that are no template's final path
TempPathsOfRun ==
    {TempPathOf(j) : j \in 1..Len(Templates)}
    \ {OutputPathOf(j) : j \in 1..Len(Templates)}

\* the calls begin and return in turn, in list order: a call begins only
\* when every earlier one has returned
OneCallAtATime ==
    /\ Len(calls) - Len(returns) \in {0, 1}
    /\ \A k \in 1..Len(calls) : calls[k] = UrlOf(k)
    /\ Len(calls) = Len(returns) + 1 =>
          /\ pc = "call" /\ dl.pc \notin {"idle", "fetch"}
          /\ idx = Len(calls)
    /\ pc = "call" => Len(returns) = idx - 1
    /\ pc = "call" /\ dl.pc \in {"idle", "fetch"} => Len(calls) = idx - 1

LeftBehind(p) ==
    \/ fs[p] = fsAtStart[p]
    \/ \E k \in 1..Len(returns) : returns[k].tempPath = p /\ returns[k].unlinkFailed

ReplaceLiteral(s, p, r) ==
    LET i == IndexFrom(s, p, 1)
    IN  IF i = 0 THEN s
        ELSE SubSeq(s, 1, i - 1) \o r \o SubSeq(s, i + Len(p), Len(s))

\* C19: URL expansion replaces the first {baseUrl} by the configured base
\* URL and then the first {0} by the date token; a second {0} is left as it
\* is, and a template with neither placeholder is used unchanged.
C19_ExpandsPlaceholders ==
    urlRun.done =>
        /\ urlRun.url =
              ReplaceLiteral(ReplaceLiteral(urlRun.urlTemplate, BASEURL_PLACEHOLDER,
                                            urlRun.baseUrl),
                             DATE_PLACEHOLDER, urlRun.date)
        /\ ~Includes(urlRun.urlTemplate, BASEURL_PLACEHOLDER)
           /\ ~Includes(urlRun.urlTemplate, DATE_PLACEHOLDER)
           => urlRun.url = urlRun.urlTemplate

\* what of C19 the code does: for a base URL without a dollar sign the
\* expansion is the literal one
C19_LiteralWithoutDollar ==
    urlRun.done /\ ~Includes(urlRun.baseUrl, <<"$">>) =>
        urlRun.url =
            ReplaceLiteral(ReplaceLiteral(urlRun.urlTemplate, BASEURL_PLACEHOLDER,
                                          urlRun.baseUrl),
                           DATE_PLACEHOLDER, urlRun.date)

\* C20: during downloadFile the file at finalPath is changed by the rename
\* of tempPath only, and the rename comes after a 2xx response, a valid
\* body, the whole body written to tempPath and the size check; at every
\* moment of the call finalPath holds its previous file or the whole new
\* body.
C20_RenameIsTheOnlyCommit ==
    [][/\ pc = "call" /\ fs'[dl.outputPath] # fs[dl.outputPath] =>
             /\ dl.pc = "rename" /\ dl'.pc = "ret"
             /\ dl.response.ok /\ dl.response.status \in 200..299
             /\ dl.content = dl.response.body
             /\ validateCSVContent(dl.content).isValid
             /\ fs[dl.tempPath] = File(dl.content)
             /\ dl.newFileSize = Len(dl.content)
             /\ fs[dl.outputPath].exists => dl.compared
             /\ fs[dl.outputPath] = dl.before[dl.outputPath]
             /\ fs'[dl.outputPath] = File(dl.content)
             /\ ~fs'[dl.tempPath].exists
             /\ dl'.result.success
       /\ pc' = "call" =>
             fs'[dl'.outputPath] \in {dl'.before[dl'.outputPath], File(dl'.response.body)}
      ]_vars

C20_Witness ==
    /\ Returned
    /\ dl.result.success
    /\ dl.compared
    /\ dl.before[dl.outputPath] = File(Csv5)
    /\ dl.content = Csv6
    /\ fs[dl.outputPath] = File(Csv6)
    /\ ~fs[dl.tempPath].exists

\* C21: a warning of the size check says "increased" exactly when newSize >
\* oldSize and "decreased" otherwise; equal sizes give no warning at any
\* threshold, so "decreased" is reported only when newSize < oldSize.
C21_DirectionFollowsSizes ==
    sizeRun.done =>
        /\ sizeRun.newSize = sizeRun.oldSize =>
              sizeRun.result = [changed |-> FALSE, warning |-> NoWarning]
        /\ sizeRun.result.warning # NoWarning =>
              /\ sizeRun.result.changed
              /\ sizeRun.result.warning.direction \in {"increased", "decreased"}
              /\ sizeRun.result.warning.direction = "increased"
                    <=> sizeRun.newSize > sizeRun.oldSize
              /\ sizeRun.result.warning.direction = "decreased"
                    <=> sizeRun.newSize < sizeRun.oldSize

C21_Witness ==
    /\ sizeRun.done
    /\ sizeRun.threshold = 0
    /\ sizeRun.newSize < sizeRun.oldSize
    /\ sizeRun.result.warning # NoWarning
    /\ sizeRun.result.warning.direction = "decreased"

\* the steps of downloadFile whose failure is caught
ThrowCauses == {"transport", "text", "write", "stat", "rename"}

\* C22: when a step of downloadFile throws, the cleanup attempts to delete
\* tempPath exactly when it exists at that moment, a file left by an earlier
\* run included; a delete is never attempted on an absent file and touches
\* nothing else, and unless the delete fails tempPath is absent when
\* downloadFile returns.
C22_CleanupDeletesExistingTemp ==
    [][pc = "call" =>
         /\ dl.pc = "catch" =>
               /\ dl.cause \in ThrowCauses
               /\ dl'.pc = "unlink" <=> fs[dl.tempPath].exists
               /\ dl'.pc = "ret" <=> ~fs[dl.tempPath].exists
               /\ fs' = fs
         /\ dl.pc = "unlink" =>
               /\ dl.cause \in ThrowCauses
               /\ fs[dl.tempPath].exists
               /\ dl'.pc = "ret" /\ dl'.result = Fail
               /\ \/ ~dl'.unlinkFailed /\ fs' = [fs EXCEPT ![dl.tempPath] = Absent]
                  \/ dl'.unlinkFailed /\ fs' = fs
         /\ dl'.pc = "ret" /\ dl'.cause \in ThrowCauses =>
               /\ fs'[dl'.tempPath].exists <=> dl'.unlinkFailed
               /\ dl'.unlinkFailed => dl.pc = "unlink"
      ]_vars

C22_Witness ==
    /\ Returned
    /\ dl.cause = "transport"
    /\ dl.before[dl.tempPath] = File(StaleTemp)
    /\ ~dl.unlinkFailed
    /\ ~fs[dl.tempPath].exists
    /\ dl.result = Fail

\* the positions of the returned calls that succeeded with a warning
WarnedPositions ==
    SelectSeq([i \in 1..Len(returns) |-> i],
              LAMBDA i : returns[i].success /\ returns[i].warning # NoWarning)

\* C23: fileSizeWarnings holds exactly the non-null warnings of the templates
\* whose fetch succeeded, in template order; a skipped template contributes
\* none, so the list is never longer than downloadedFiles.
C23_WarningsOfSuccesses ==
    /\ fileSizeWarnings =
          [k \in 1..Len(WarnedPositions) |-> returns[WarnedPositions[k]].warning]
    /\ \A k \in 1..Len(fileSizeWarnings) : fileSizeWarnings[k] # NoWarning
    /\ \A i \in 1..Len(returns) : ~returns[i].success => returns[i].warning = NoWarning
    /\ Len(fileSizeWarnings) <= Len(downloadedFiles)
    /\ Len(downloadedFiles) = Len(Positions(TRUE))

C23_Witness ==
    /\ pc = "done"
    /\ Len(Templates) = 2
    /\ ~returns[1].success
    /\ returns[2].success
    /\ returns[2].warning # NoWarning
    /\ fileSizeWarnings = <<returns[2].warning>>
    /\ Len(downloadedFiles) = 1

\* equal sizes give no warning, whatever the threshold
EqualSizesNeverWarn ==
    \A n \in 0..MaxSize, t \in Thresholds :
        checkFileSizeChange(n, n, t, "a.csv") = [changed |-> FALSE, warning |-> NoWarning]

\* C24: when finalPath already holds exactly the valid body the transport
\* returns, finalPath holds that content afterwards, and the call (no
\* filesystem operation failing) returns {success: true, warning: null} at
\* every threshold.
C24_SameContentIsIdempotent ==
    /\ EqualSizesNeverWarn
    /\ /\ Returned
       /\ dl.response.ok
       /\ validateCSVContent(dl.response.body).isValid
       /\ dl.before[dl.outputPath] = File(dl.response.body)
       => /\ fs[dl.outputPath] = File(dl.response.body)
          /\ dl.result.warning = NoWarning
          /\ dl.cause = "none" =>
                /\ dl.result = [success |-> TRUE, warning |-> NoWarning]
                /\ dl.compared
                /\ ~fs[dl.tempPath].exists

C24_Witness ==
    /\ CleanRun
    /\ dl.sizeChangeThreshold = 0
    /\ dl.before[dl.outputPath] = File(Csv5)
    /\ dl.response.body = Csv5
    /\ dl.compared
    /\ dl.result = [success |-> TRUE, warning |-> NoWarning]
    /\ fs[dl.outputPath] = File(Csv5)

\* fetchData returned its three lists, every template processed
ReturnedLists ==
    /\ pc = "done"
    /\ Len(returns) = Len(Templates)
    /\ Len(calls) = Len(Templates)
    /\ Len(downloadedFiles) + Len(skippedFiles) = Len(Templates)

\* fetchData rejected before the loop: no template was fetched
RejectedEarly ==
    /\ pc = "threw"
    /\ error \in {"mkdir", "format"}
    /\ calls = <<>>

\* C25 (as stated): if every operation completes, fetchData eventually
\* returns its three lists, every template processed.
C25_EventuallyReturns == <>ReturnedLists

\* C25 (amended): if every operation completes, fetchData eventually either
\* returns its three lists, every template processed, or rejects before the
\* first template because the directory could not be created or the date
\* could not be formatted; once the loop is entered it always returns.
C25_EventuallyReturnsOrRejects ==
    /\ <>(ReturnedLists \/ RejectedEarly)
    /\ (pc = "loop") ~> ReturnedLists

C25_Witness ==
    /\ ReturnedLists
    /\ Len(Templates) = 2
    /\ Len(downloadedFiles) = 1
    /\ Len(skippedFiles) = 1
    /\ exitCode = 0

\* C26: the effective configuration is the default configuration with each
\* supplied field replacing the default and every other field keeping it;
\* the defaults are unchanged by the run, and a later run without overrides
\* gets the original defaults.
C26_MergeKeepsDefaults ==
    /\ configRun.defaults = DEFAULT_CONFIG
    /\ configRun.runs >= 1 =>
          /\ DOMAIN configRun.first = DOMAIN DEFAULT_CONFIG
          /\ \A k \in DOMAIN DEFAULT_CONFIG :
                configRun.first[k] = IF k \in DOMAIN configRun.overrides
                                     THEN configRun.overrides[k]
                                     ELSE DEFAULT_CONFIG[k]
    /\ configRun.runs = 2 =>
          /\ configRun.second = DEFAULT_CONFIG
          /\ configRun.second.sizeChangeThresholdPercent = 20
          /\ configRun.second.dateFormat = "yyyyMMdd"

C26_Witness ==
    /\ configRun.runs = 2
    /\ DOMAIN configRun.overrides = {"sizeChangeThresholdPercent", "outputDir"}
    /\ configRun.first.sizeChangeThresholdPercent = 50
    /\ configRun.first.outputDir = "out"
    /\ configRun.first.dateFormat = "yyyyMMdd"
    /\ configRun.first.baseUrl = DEFAULT_CONFIG.baseUrl
    /\ configRun.second = DEFAULT_CONFIG

\* C27: the consolidated validator agrees with the legacy helpers on every
\* content: validateCSVContent(c).isValid is true exactly when isHtmlContent(c)
\* is false and isValidCsv(c) is true.
C27_AgreesWithLegacyHelpers ==
    vresult # NotValidated /\ vlegacy.done =>
        (vresult.isValid <=> ~vlegacy.isHtml /\ vlegacy.isCsv)

\* the two helpers disagree with each other: a comma on the first line, and HTML
C27_Witness ==
    /\ vresult = InvalidHtml
    /\ vlegacy.done /\ vlegacy.isHtml /\ vlegacy.isCsv

\* a plain CSV content, accepted by all three
C27_WitnessValid ==
    /\ vresult = Valid
    /\ vlegacy.done /\ ~vlegacy.isHtml /\ vlegacy.isCsv

====
